---- MODULE Spec2Model ----
(***************************************************************************)
(* Model of NaukriAPIClient (src/main.py) and of its command line driver   *)
(* (src/naukri_client.py): the cookie file, the in-memory cookie jar of    *)
(* the requests session, the clock, and one action per public operation.   *)
(* Every operation is one action: the client is single-threaded and every  *)
(* call is synchronous.  The remote service's answers are inputs, drawn    *)
(* from small sets.  Each operation leaves a record of what it did (the    *)
(* checks, logins and requests in order) in the history variable last.     *)
(* A second specification, SpecConc, runs two processes on one cookie file *)
(* with every access of the file as a step of its own.                     *)
(***************************************************************************)
EXTENDS Integers, Sequences, FiniteSets, TLC

VARIABLES
    file,   \* the cookie file on disk (shared by successive processes)
    jar,    \* session.cookies of the live client, in iteration order
    now,    \* int(time.time())
    phase,  \* "none" (no process), "cli_new", "cli_ready", "lib"
    ens,    \* history: the latest ensure-valid step of this process succeeded
    ops,    \* number of operations performed so far
    last,   \* history: the last operation, its inputs, its events, its result
    procs   \* two concurrent processes at their file steps (SpecConc only)

vars == <<file, jar, now, phase, ens, ops, last, procs>>

----------------------------------------------------------------------------
(* Bounds of the model and constants of the program.                       *)

Now0 == 1000            \* clock reading of the initial state
MaxNow == 4601          \* the clock stops advancing here
MaxOps == 5             \* operations in one behaviour
MaxHeadline == 2        \* longest headline the profile endpoint returns
MaxProcOps == 2         \* file operations of each concurrent process
FallbackTTL == 3600     \* main.py:304

DefaultDomain == ".naukri.com"
OtherDomain == "files.example"

----------------------------------------------------------------------------
(* JSON values.  An array element is an object with optional fields        *)
(* (kind "obj"; a field that is absent has its has* flag FALSE) or a       *)
(* number (kind "num"), on which `in` and .get raise.                      *)

Obj(n, v, d, e) ==
    [kind |-> "obj", hasName |-> n # "", name |-> n, hasValue |-> v # "",
     value |-> v, hasDomain |-> d # "", domain |-> d,
     hasExpiry |-> e # -1, expiry |-> IF e = -1 THEN 0 ELSE e]

Num ==
    [kind |-> "num", hasName |-> FALSE, name |-> "", hasValue |-> FALSE,
     value |-> "", hasDomain |-> FALSE, domain |-> "",
     hasExpiry |-> FALSE, expiry |-> 0]

(* The cookie file: absent, text that is no JSON, a JSON number, the empty *)
(* JSON object, or a JSON array.                                           *)
Absent == [kind |-> "absent", items |-> <<>>]
Garbage == [kind |-> "garbage", items |-> <<>>]
EmptyFile == [kind |-> "empty", items |-> <<>>]
NumberFile == [kind |-> "number", items |-> <<>>]
EmptyObjFile == [kind |-> "emptyobj", items |-> <<>>]
Array(items) == [kind |-> "array", items |-> items]

Cookie(n, v, d) == [name |-> n, value |-> v, domain |-> d]

----------------------------------------------------------------------------
(* requests' cookie jar: cookies are keyed by (domain, path, name) in      *)
(* nested dictionaries, so setting an existing key replaces the value in   *)
(* place, a new name goes after the last cookie of its domain, and a new   *)
(* domain goes last.                                                       *)

JarIndex(j, n, d) ==
    IF \E i \in 1..Len(j) : j[i].name = n /\ j[i].domain = d
    THEN CHOOSE i \in 1..Len(j) : j[i].name = n /\ j[i].domain = d
    ELSE 0

LastOfDomain(j, d) ==
    IF \E i \in 1..Len(j) : j[i].domain = d
    THEN CHOOSE i \in 1..Len(j) :
            /\ j[i].domain = d
            /\ \A k \in (i+1)..Len(j) : j[k].domain # d
    ELSE Len(j)

JarSet(j, n, v, d) ==
    LET i == JarIndex(j, n, d) IN
    IF i # 0
    THEN [j EXCEPT ![i] = Cookie(n, v, d)]
    ELSE LET p == LastOfDomain(j, d) IN
         SubSeq(j, 1, p) \o <<Cookie(n, v, d)>> \o SubSeq(j, p + 1, Len(j))

(* _set_cookies_from_json: installs the elements in order; an element that *)
(* is no object raises, after the elements before it were installed.       *)
RECURSIVE SetCookiesFromJson(_, _)
SetCookiesFromJson(j, list) ==
    IF list = <<>> THEN [jar |-> j, raised |-> FALSE]
    ELSE LET c == Head(list) IN
         IF c.kind # "obj" THEN [jar |-> j, raised |-> TRUE]
         ELSE IF c.hasName /\ c.hasValue
              THEN SetCookiesFromJson(
                       JarSet(j, c.name, c.value,
                              IF c.hasDomain THEN c.domain ELSE DefaultDomain),
                       Tail(list))
              ELSE SetCookiesFromJson(j, Tail(list))

(* _save_cookies: one object per cookie of the jar, each with the expiry   *)
(* now + 3600; the file is overwritten.                                    *)
SavedExpiryPast(t) == t - FallbackTTL

SavedExpiry(t) == t + FallbackTTL

SaveCookiesWithoutExpiry(j, t) ==
    Array([i \in 1..Len(j) |-> Obj(j[i].name, j[i].value, j[i].domain, -1)])

SaveCookies(j, t) ==
    Array([i \in 1..Len(j) |->
              Obj(j[i].name, j[i].value, j[i].domain, SavedExpiry(t))])

(* _load_cookies: nothing when the file is absent; any exception of the    *)
(* parse or of _set_cookies_from_json is swallowed, what was installed     *)
(* before it stays.                                                        *)
LoadCookies(f, j) ==
    CASE f.kind = "absent" -> j
      [] f.kind = "garbage" -> j
      [] f.kind = "empty" -> j
      [] f.kind = "number" -> j
      [] f.kind = "emptyobj" -> j
      [] OTHER -> SetCookiesFromJson(j, f.items).jar

(* _is_cookie_expired: the loop over the parsed file.                      *)
ExpiredLoopFirstOnly(items, t) ==
    IF items = <<>> THEN FALSE
    ELSE LET c == Head(items) IN
         IF c.kind # "obj" THEN TRUE
         ELSE LET exp == IF c.hasExpiry THEN c.expiry ELSE 0 IN
              exp # 0 /\ exp < t

RECURSIVE ExpiredLoop(_, _)
ExpiredLoop(items, t) ==
    IF items = <<>> THEN FALSE
    ELSE LET c == Head(items) IN
         IF c.kind # "obj" THEN TRUE
         ELSE LET exp == IF c.hasExpiry THEN c.expiry ELSE 0 IN
              IF exp # 0 /\ exp < t THEN TRUE
              ELSE ExpiredLoop(Tail(items), t)

IsCookieExpired(f, t) ==
    CASE f.kind = "absent" -> TRUE
      [] f.kind = "garbage" -> TRUE
      [] f.kind = "empty" -> TRUE
      [] f.kind = "number" -> TRUE
      [] f.kind = "emptyobj" -> FALSE
      [] OTHER -> ExpiredLoop(f.items, t)

----------------------------------------------------------------------------
(* History records.  An event is one step of an operation: a cookie-expiry *)
(* check, a login, or an authenticated request with the status it got.     *)
(* A request records whether an ensure-valid step preceded it (ens) and    *)
(* whether the cookie file was present and unexpired when it was sent.     *)

Event(e, st, resp, hl, key, pid, c, t) ==
    [e |-> e, st |-> st, resp |-> resp, hl |-> hl, key |-> key, pid |-> pid,
     ens |-> c.ens, sess |-> ~IsCookieExpired(c.file, t)]

Ctx(j, f, en, tr) == [jar |-> j, file |-> f, ens |-> en, tr |-> tr]

Emit(c, ev) == [c EXCEPT !.tr = Append(@, ev)]

RequestKinds == {"GET_profile", "POST_upload", "POST_update", "POST_headline"}

----------------------------------------------------------------------------
(* The login endpoint's answers: an HTTP error status (raise_for_status    *)
(* raises), a body without "cookies", or a body with a cookie list.        *)

LoginResponses == {"http_error", "no_cookies", "empty", "two", "junk_tail"}

CookiesOf(r) ==
    CASE r = "two" -> <<Obj("sid", "v2", "", -1), Obj("tok", "", "", -1),
                        Obj("tok", "v1", OtherDomain, Now0 + 2 * FallbackTTL)>>
      [] r = "junk_tail" -> <<Obj("tok", "v1", "", -1), Num>>
      [] OTHER -> <<>>

(* login(): the exception it raises, "" when it returns.                   *)
LoginRaises(c, r) ==
    CASE r = "http_error" -> "RequestException"
      [] r = "no_cookies" -> "ValueError"
      [] SetCookiesFromJson(c.jar, CookiesOf(r)).raised -> "TypeError"
      [] OTHER -> ""

LoginJarReplacing(c, r) ==
    IF r \in {"http_error", "no_cookies"} THEN c.jar
    ELSE SetCookiesFromJson(<<>>, CookiesOf(r)).jar

LoginJar(c, r) ==
    IF r \in {"http_error", "no_cookies"} THEN c.jar
    ELSE SetCookiesFromJson(c.jar, CookiesOf(r)).jar

LoginFileAlwaysSaved(c, t, r) == SaveCookies(LoginJar(c, r), t)

LoginFile(c, t, r) ==
    IF LoginRaises(c, r) # "" THEN c.file
    ELSE SaveCookies(LoginJar(c, r), t)

Login(c, t, r) ==
    LET exc == LoginRaises(c, r)
        c1 == [c EXCEPT !.jar = LoginJar(c, r), !.file = LoginFile(c, t, r),
                        !.ens = IF exc = "" THEN TRUE ELSE @]
    IN [c |-> Emit(c1, Event("login", IF exc = "" THEN "ok" ELSE "raised",
                             r, <<>>, "", "", c, t)),
        exc |-> exc]

----------------------------------------------------------------------------
(* The profile endpoint's answers.  A status is "200", "401", "500" or     *)
(* "ERR" (the transport failed: requests raises).  A 200 carries a body:   *)
(* text that is no JSON, an object without "profile", an empty profile     *)
(* list, or a first profile with optional profileId and resumeHeadline.    *)

GetStatuses == {"200", "401", "500", "ERR"}
PostStatuses == {"200", "204", "401", "ERR"}

Chars == {"S", "."}

RECURSIVE SeqsUpTo(_)
SeqsUpTo(n) ==
    IF n = 0 THEN {<<>>}
    ELSE LET prev == SeqsUpTo(n - 1) IN
         prev \cup {Append(q, ch) : q \in prev, ch \in Chars}

Headlines == SeqsUpTo(MaxHeadline) \ {<<>>}

Body(shape, hasPid, pid, hl) ==
    [shape |-> shape, hasPid |-> hasPid, pid |-> pid, hl |-> hl]

NoBody == Body("none", FALSE, "", <<>>)

Bodies ==
    {Body("bad_json", FALSE, "", <<>>), Body("no_key", FALSE, "", <<>>),
     Body("empty_list", FALSE, "", <<>>), Body("profile", FALSE, "", <<"S">>),
     Body("profile", TRUE, "", <<"S">>), Body("profile", TRUE, "12345", <<>>),
     Body("profile", TRUE, "67890", <<"S">>)}
    \cup {Body("profile", TRUE, "12345", h) : h \in Headlines}

Out(c, res, exc, body) == [c |-> c, res |-> res, exc |-> exc, body |-> body]

(* get_profile, from the first GET on (lines 89-103): everything here is   *)
(* inside the try, so a login that raises yields None.                     *)
GetResultIgnoringStatus(c, st) ==
    IF st # "ERR"
    THEN {Out(c, IF b.shape = "bad_json" THEN "None" ELSE "body", "", b)
          : b \in Bodies}
    ELSE {Out(c, "None", "", NoBody)}

GetResult(c, st) ==
    IF st = "200"
    THEN {Out(c, IF b.shape = "bad_json" THEN "None" ELSE "body", "", b)
          : b \in Bodies}
    ELSE {Out(c, "None", "", NoBody)}

Get(c, t, st) == Emit(c, Event("GET_profile", st, "", <<>>, "", "", c, t))

RetryWithoutLogin(c, t) ==
    UNION {GetResult(Get(c, t, st2), st2) : st2 \in GetStatuses}

RetryAfter401(c, t) ==
    UNION {LET lo == Login(c, t, r) IN
           IF lo.exc # "" THEN {Out(lo.c, "None", "", NoBody)}
           ELSE UNION {GetResult(Get(lo.c, t, st2), st2) : st2 \in GetStatuses}
           : r \in LoginResponses}

FetchProfile(c, t) ==
    UNION {LET c1 == Get(c, t, st) IN
           IF st = "401" THEN RetryAfter401(c1, t) ELSE GetResult(c1, st)
           : st \in GetStatuses}

(* get_profile (lines 77-103): the expiry check and its login are outside  *)
(* the try, so that login's exception escapes.                             *)
Check(c, t) ==
    LET exp == IsCookieExpired(c.file, t) IN
    Emit([c EXCEPT !.ens = ~exp],
         Event("check", IF exp THEN "expired" ELSE "valid", "", <<>>, "", "", c, t))

GetProfile(c, t) ==
    LET c1 == Check(c, t) IN
    IF IsCookieExpired(c.file, t)
    THEN UNION {LET lo == Login(c1, t, r) IN
                IF lo.exc # "" THEN {Out(lo.c, "raised", lo.exc, NoBody)}
                ELSE FetchProfile(lo.c, t)
                : r \in LoginResponses}
    ELSE FetchProfile(c1, t)

(* update_resume (lines 165-209).                                          *)
UpdateResume(c, t, key, pid) ==
    {Out(Emit(c, Event("POST_update", st, "", <<>>, key, pid, c, t)),
         IF st = "200" THEN "True" ELSE "False", "", NoBody)
     : st \in PostStatuses}

(* upload_resume (lines 105-163).  The file is opened first; the upload    *)
(* POST, get_profile and update_resume run inside the try, which catches   *)
(* FileNotFoundError and requests.RequestException only.                   *)
UploadResponses == {"ERR", "401", "list", "empty", "k1", "k2k1"}

UploadStatus(u) == IF u \in {"ERR", "401"} THEN u ELSE "200"

FileKeyLast(u) == "k1"

FileKey(u) == IF u = "k1" THEN "k1" ELSE "k2"

(* What upload_resume reads of the profile: profile[0].profileId.          *)
PidBody(b) == Body(b.shape, b.hasPid, b.pid, <<>>)

AfterUpload(c, t, key) ==
    UNION {CASE g.res = "raised" ->
                   IF g.exc = "RequestException"
                   THEN {Out(g.c, "None", "", NoBody)}
                   ELSE {Out(g.c, "raised", g.exc, NoBody)}
             [] g.res = "None" -> {Out(g.c, "raised", "TypeError", NoBody)}
             [] g.body.shape = "no_key" ->
                   {Out(g.c, "raised", "KeyError", PidBody(g.body))}
             [] g.body.shape = "empty_list" ->
                   {Out(g.c, "raised", "IndexError", PidBody(g.body))}
             [] ~g.body.hasPid ->
                   {Out(g.c, "raised", "KeyError", PidBody(g.body))}
             [] g.body.pid = "" -> {Out(g.c, "False", "", PidBody(g.body))}
             [] OTHER -> {[o EXCEPT !.body = PidBody(g.body)]
                          : o \in UpdateResume(g.c, t, key, g.body.pid)}
           : g \in GetProfile(c, t)}

UploadResume(c, t, pathExists) ==
    IF ~pathExists THEN {Out(c, "None", "", NoBody)}
    ELSE UNION {LET c1 == Emit(c, Event("POST_upload", UploadStatus(u), u,
                                        <<>>, "", "", c, t)) IN
                IF u \in {"k1", "k2k1"} THEN AfterUpload(c1, t, FileKey(u))
                ELSE {Out(c1, "None", "", NoBody)}
                : u \in UploadResponses}

(* str.rstrip("."): the text without its trailing periods.                 *)
RECURSIVE RStrip(_)
RStrip(h) ==
    IF h # <<>> /\ h[Len(h)] = "." THEN RStrip(SubSeq(h, 1, Len(h) - 1)) ELSE h

HeadlineDotAppended(h) == Append(h, ".")

HeadlineWithDot(h) == Append(RStrip(h), ".")

(* refresh_resume_headline (lines 211-280): get_profile and the reading of *)
(* its result are outside the try; the two POSTs are inside.               *)
PostHeadline(c, t, st, h, pid) ==
    Emit(c, Event("POST_headline", st, "", h, "", pid, c, t))

SubmitHeadlinesAlwaysReverting(c, t, b) ==
    UNION {LET c1 == PostHeadline(c, t, st1, HeadlineWithDot(b.hl), b.pid) IN
           {Out(PostHeadline(c1, t, st2, b.hl, b.pid),
                IF st1 = "200" /\ st2 = "200" THEN "True" ELSE "False", "", b)
            : st2 \in PostStatuses}
           : st1 \in PostStatuses}

SubmitHeadlines(c, t, b) ==
    UNION {LET c1 == PostHeadline(c, t, st1, HeadlineWithDot(b.hl), b.pid) IN
           IF st1 # "200" THEN {Out(c1, "False", "", b)}
           ELSE {Out(PostHeadline(c1, t, st2, b.hl, b.pid),
                     IF st2 = "200" THEN "True" ELSE "False", "", b)
                 : st2 \in PostStatuses}
           : st1 \in PostStatuses}

RefreshResumeHeadline(c, t) ==
    UNION {CASE g.res = "raised" -> {Out(g.c, "raised", g.exc, NoBody)}
             [] g.res = "None" -> {Out(g.c, "raised", "AttributeError", NoBody)}
             [] g.body.shape # "profile" -> {Out(g.c, "False", "", NoBody)}
             [] ~g.body.hasPid \/ g.body.pid = "" \/ g.body.hl = <<>> ->
                   {Out(g.c, "False", "", NoBody)}
             [] OTHER -> SubmitHeadlines(g.c, t, g.body)
           : g \in GetProfile(c, t)}

(* logout (lines 67-72).                                                   *)
LogoutKeepingFile(c) == [c EXCEPT !.jar = <<>>, !.ens = FALSE]

Logout(c) == [c EXCEPT !.jar = <<>>, !.file = Absent, !.ens = FALSE]

----------------------------------------------------------------------------
(* The state machine.                                                      *)

Last(op, in, c, res, exc, body) ==
    [op |-> op, in |-> in, tr |-> c.tr, res |-> res, exc |-> exc, body |-> body]

Idle == Last("idle", <<>>, Ctx(<<>>, Absent, FALSE, <<>>), "", "", NoBody)

Here == Ctx(jar, file, ens, <<>>)

(* Cookie files a process may find at start: left by an earlier run or by  *)
(* anything else that writes the path.                                     *)
InitFiles ==
    {Absent, Garbage, NumberFile, EmptyObjFile, Array(<<>>),
     Array(<<Obj("sid", "v1", DefaultDomain, Now0 + 1)>>),
     Array(<<Obj("sid", "v1", DefaultDomain, Now0 - 1)>>),
     Array(<<Obj("sid", "v1", DefaultDomain, 0)>>),
     Array(<<Obj("sid", "v1", DefaultDomain, -1)>>),
     Array(<<Obj("sid", "v1", DefaultDomain, Now0 + FallbackTTL),
             Obj("tok", "v2", OtherDomain, Now0 - 1)>>),
     Array(<<Obj("sid", "v1", DefaultDomain, Now0 + FallbackTTL), Num>>),
     Array(<<Obj("", "v1", DefaultDomain, Now0 - 1)>>)}

(* The concurrent processes of SpecConc; Spec runs one process at a time   *)
(* and leaves them idle.                                                   *)
Procs == {"p1", "p2"}

Proc(pc, j, saw, exp, fault, n) ==
    [pc |-> pc, jar |-> j, saw |-> saw, exp |-> exp, fault |-> fault, n |-> n]

NoProcs == [p \in Procs |-> Proc("idle", <<>>, "", "", "", 0)]

Init ==
    /\ file \in InitFiles
    /\ jar = <<>>
    /\ now = Now0
    /\ phase = "none"
    /\ ens = FALSE
    /\ ops = 0
    /\ last = Idle
    /\ procs = NoProcs

(* An operation's outcome becomes the next state; the process goes on in   *)
(* phase ph.                                                               *)
Becomes(op, in, o, ph) ==
    /\ ops < MaxOps
    /\ ops' = ops + 1
    /\ file' = o.c.file
    /\ jar' = IF ph = "none" THEN <<>> ELSE o.c.jar
    /\ ens' = IF ph = "none" THEN FALSE ELSE o.c.ens
    /\ phase' = ph
    /\ last' = Last(op, in, o.c, o.res, o.exc, o.body)
    /\ now' = now
    /\ procs' = procs

(* NaukriAPIClient.__init__ (lines 16-45): a credential is the explicit    *)
(* argument, or else the environment's value; "" stands for None and for   *)
(* the empty string, which `or` and `not` treat alike.                     *)
CredValues == {"", "u"}

EnvValues == {"", "e"}

ResolveEnvFirst(explicit, env) == IF env # "" THEN env ELSE explicit

Resolve(explicit, env) == IF explicit # "" THEN explicit ELSE env

(* _load_cookies, called last by __init__ (line 45).                       *)
Load(c, t) ==
    Emit([c EXCEPT !.jar = LoadCookies(c.file, <<>>)],
         Event("load", IF c.file = Absent THEN "absent" ELSE "read",
               "", <<>>, "", "", c, t))

Construct ==
    /\ phase = "none" /\ last = Idle
    /\ \E eu \in CredValues, ep \in CredValues, vu \in EnvValues,
          vp \in EnvValues, mode \in {"cli_new", "lib"} :
          LET user == Resolve(eu, vu)
              pass == Resolve(ep, vp)
              in == <<eu, ep, vu, vp, user, pass>>
          IN IF user = "" \/ pass = ""
             THEN Becomes("construct", in, Out(Here, "raised", "ValueError", NoBody),
                          "none")
             ELSE Becomes("construct", in, Out(Load(Here, now), "ok", "", NoBody),
                          mode)

EnsureSkipped ==
    /\ phase = "cli_new" /\ last = Idle
    /\ Becomes("cli_ensure", <<>>, Out(Here, "ok", "", NoBody), "cli_ready")

(* naukri_client.py lines 17-19: log in when the cookies are expired or    *)
(* the jar is empty; an exception of login ends the process.               *)
CliEnsure ==
    /\ phase = "cli_new" /\ last = Idle
    /\ LET exp == IsCookieExpired(file, now)
           c1 == IF exp THEN Check(Here, now)
                 ELSE Emit([Here EXCEPT !.ens = jar # <<>>],
                           Event("check", IF jar = <<>> THEN "no_cookies" ELSE "valid",
                                 "", <<>>, "", "", Here, now))
       IN IF exp \/ jar = <<>>
          THEN \E r \in LoginResponses :
                  LET lo == Login(c1, now, r) IN
                  IF lo.exc # ""
                  THEN Becomes("cli_ensure", <<>>, Out(lo.c, "raised", lo.exc, NoBody),
                               "none")
                  ELSE Becomes("cli_ensure", <<>>, Out(lo.c, "ok", "", NoBody),
                               "cli_ready")
          ELSE Becomes("cli_ensure", <<>>, Out(c1, "ok", "", NoBody), "cli_ready")

(* naukri_client.py lines 21-28: one action, then the process ends.  The   *)
(* path given to upload_resume names a file that exists, or none.          *)
PathArg(pathExists) == IF pathExists THEN "file" ELSE "no_file"

CliUpload ==
    /\ phase = "cli_ready" /\ last = Idle
    /\ \E pathExists \in BOOLEAN : \E o \in UploadResume(Here, now, pathExists) :
          Becomes("cli_upload", <<PathArg(pathExists)>>, o, "none")

CliRefresh ==
    /\ phase = "cli_ready" /\ last = Idle
    /\ \E o \in RefreshResumeHeadline(Here, now) :
          Becomes("cli_refresh", <<>>, o, "none")

CliNoAction ==
    /\ phase = "cli_ready" /\ last = Idle
    /\ Becomes("cli_none", <<>>, Out(Here, "ok", "", NoBody), "none")

(* The public operations, called in any order on a constructed client.     *)
LibLogin ==
    /\ phase = "lib" /\ last = Idle
    /\ \E r \in LoginResponses :
          LET lo == Login(Here, now, r) IN
          Becomes("login", <<>>,
                  Out(lo.c, IF lo.exc = "" THEN "ok" ELSE "raised", lo.exc, NoBody),
                  "lib")

LibLogout ==
    /\ phase = "lib" /\ last = Idle
    /\ Becomes("logout", <<>>, Out(Logout(Here), "ok", "", NoBody), "lib")

LibGetProfile ==
    /\ phase = "lib" /\ last = Idle
    /\ \E o \in GetProfile(Here, now) : Becomes("get_profile", <<>>, o, "lib")

LibUploadResume ==
    /\ phase = "lib" /\ last = Idle
    /\ \E pathExists \in BOOLEAN : \E o \in UploadResume(Here, now, pathExists) :
          Becomes("upload_resume", <<PathArg(pathExists)>>, o, "lib")

LibUpdateResume ==
    /\ phase = "lib" /\ last = Idle
    /\ \E o \in UpdateResume(Here, now, "k1", "12345") :
          Becomes("update_resume", <<>>, o, "lib")

LibRefresh ==
    /\ phase = "lib" /\ last = Idle
    /\ \E o \in RefreshResumeHeadline(Here, now) :
          Becomes("refresh_resume_headline", <<>>, o, "lib")

LibExit ==
    /\ phase = "lib" /\ last = Idle
    /\ Becomes("exit", <<>>, Out(Here, "ok", "", NoBody), "none")

(* The caller takes the operation's result; the history is reset.          *)
Return ==
    /\ last # Idle
    /\ last' = Idle
    /\ UNCHANGED <<file, jar, now, phase, ens, ops, procs>>

(* Time passes between operations: exactly the cookies' lifetime, or one   *)
(* second more.                                                            *)
Tick ==
    /\ last = Idle
    /\ \E d \in {FallbackTTL, FallbackTTL + 1} : now + d <= MaxNow /\ now' = now + d
    /\ UNCHANGED <<file, jar, phase, ens, ops, last, procs>>

Next ==
    \/ Construct \/ CliEnsure \/ CliUpload \/ CliRefresh \/ CliNoAction
    \/ LibLogin \/ LibLogout \/ LibGetProfile \/ LibUploadResume
    \/ LibUpdateResume \/ LibRefresh \/ LibExit \/ Return \/ Tick

Spec == Init /\ [][Next]_vars

----------------------------------------------------------------------------
(* Two processes on one cookie file.  Every access of the file is a step   *)
(* of its own: Path.exists(), open-and-read, open for writing (which       *)
(* truncates), the writes of json.dump, close, and unlink.  A process      *)
(* records what its last read saw (saw), what _is_cookie_expired returned  *)
(* (exp) and the exception that left it unhandled (fault).                 *)

Started(p) == [procs[p] EXCEPT !.n = @ + 1, !.saw = "", !.exp = ""]

CanStart(p) == procs[p].pc = "idle" /\ procs[p].n < MaxProcOps

ConcFrame == UNCHANGED <<jar, now, phase, ens, ops, last>>

(* _load_cookies of a new client, line 314: the existence check.           *)
StartLoad(p) ==
    /\ CanStart(p)
    /\ procs' = [procs EXCEPT ![p] =
          IF file = Absent
          THEN [Started(p) EXCEPT !.jar = <<>>, !.saw = "absent"]
          ELSE [Started(p) EXCEPT !.jar = <<>>, !.pc = "load_open"]]
    /\ UNCHANGED file /\ ConcFrame

(* _load_cookies, lines 316-322: open, json.load, install; every exception *)
(* (the file is gone, empty or cut short) is caught.                       *)
LoadOpen(p) ==
    /\ procs[p].pc = "load_open"
    /\ procs' = [procs EXCEPT ![p] =
          [@ EXCEPT !.pc = "idle", !.saw = file.kind,
                    !.jar = LoadCookies(file, <<>>)]]
    /\ UNCHANGED file /\ ConcFrame

(* _is_cookie_expired, line 326: the existence check.                      *)
StartCheck(p) ==
    /\ CanStart(p)
    /\ procs' = [procs EXCEPT ![p] =
          IF file = Absent
          THEN [Started(p) EXCEPT !.saw = "absent", !.exp = "yes"]
          ELSE [Started(p) EXCEPT !.pc = "check_open"]]
    /\ UNCHANGED file /\ ConcFrame

(* _is_cookie_expired, lines 328-340: open, json.load, the loop; every     *)
(* exception is caught and answers True.                                   *)
CheckOpen(p) ==
    /\ procs[p].pc = "check_open"
    /\ procs' = [procs EXCEPT ![p] =
          [@ EXCEPT !.pc = "idle", !.saw = file.kind,
                    !.exp = IF IsCookieExpired(file, now) THEN "yes" ELSE "no"]]
    /\ UNCHANGED file /\ ConcFrame

(* login() up to the open of _save_cookies (line 307): the response's      *)
(* cookie is installed, and open(..., "w") creates or truncates the file.  *)
StartSave(p) ==
    /\ CanStart(p)
    /\ \E v \in {"v1", "v2"} :
          procs' = [procs EXCEPT ![p] =
             [Started(p) EXCEPT !.pc = "save_write",
                                !.jar = JarSet(procs[p].jar, "sid", v, DefaultDomain)]]
    /\ file' = EmptyFile
    /\ ConcFrame

(* json.dump (line 308) when the buffer is flushed before the end: the     *)
(* file holds the beginning of the text.                                   *)
SaveFlush(p) ==
    /\ procs[p].pc = "save_write"
    /\ procs' = [procs EXCEPT ![p] = [@ EXCEPT !.pc = "save_close"]]
    /\ file' = Garbage
    /\ ConcFrame

(* The end of the with block (line 308): the whole text is in the file,    *)
(* written from offset 0.  When the other process has written a longer     *)
(* text since this one truncated the file, the tail of that text remains.  *)
SaveClose(p) ==
    /\ procs[p].pc \in {"save_write", "save_close"}
    /\ procs' = [procs EXCEPT ![p] = [@ EXCEPT !.pc = "idle"]]
    /\ file' = IF file.kind = "array" /\ Len(file.items) > Len(procs[p].jar)
               THEN Garbage
               ELSE SaveCookies(procs[p].jar, now)
    /\ ConcFrame

(* logout, lines 69-70: the jar is cleared, then the existence check.      *)
StartLogout(p) ==
    /\ CanStart(p)
    /\ procs' = [procs EXCEPT ![p] =
          IF file = Absent
          THEN [Started(p) EXCEPT !.jar = <<>>]
          ELSE [Started(p) EXCEPT !.jar = <<>>, !.pc = "logout_unlink"]]
    /\ UNCHANGED file /\ ConcFrame

(* logout, line 71: Path.unlink() raises FileNotFoundError when the file   *)
(* is gone; logout has no try.                                             *)
LogoutUnlink(p) ==
    /\ procs[p].pc = "logout_unlink"
    /\ procs' = [procs EXCEPT ![p] =
          IF file = Absent
          THEN [@ EXCEPT !.pc = "crashed", !.fault = "FileNotFoundError"]
          ELSE [@ EXCEPT !.pc = "idle"]]
    /\ file' = Absent
    /\ ConcFrame

InitConc ==
    /\ file \in {Absent, Array(<<Obj("sid", "v1", DefaultDomain, Now0 + FallbackTTL)>>),
                 Array(<<Obj("sid", "v1", DefaultDomain, Now0 - 1),
                         Obj("tok", "v2", OtherDomain, Now0 + FallbackTTL)>>)}
    /\ jar = <<>>
    /\ now = Now0
    /\ phase = "none"
    /\ ens = FALSE
    /\ ops = 0
    /\ last = Idle
    /\ procs = NoProcs

NextConc ==
    \E p \in Procs :
        \/ StartLoad(p) \/ LoadOpen(p) \/ StartCheck(p) \/ CheckOpen(p)
        \/ StartSave(p) \/ SaveFlush(p) \/ SaveClose(p)
        \/ StartLogout(p) \/ LogoutUnlink(p)

SpecConc == InitConc /\ [][NextConc]_vars

----------------------------------------------------------------------------
(* Properties.  They read the history of the last operation.               *)

ApiOps ==
    {"get_profile", "upload_resume", "update_resume", "refresh_resume_headline",
     "cli_upload", "cli_refresh"}

IsRequest(ev) == ev.e \in RequestKinds

(* Event i is the retry of a request that got 401 and was followed by a    *)
(* login.                                                                   *)
IsRetry(tr, i) ==
    /\ i > 2
    /\ tr[i-1].e = "login"
    /\ tr[i-2].e = tr[i].e
    /\ tr[i-2].st = "401"

Failed == last.res \in {"None", "False", "raised"}

(* C1 as stated: in every authenticated operation, a request that gets 401 *)
(* is followed by exactly one login and exactly one retry of that request, *)
(* and a retry that gets 401 ends the operation in failure.                *)
C1_Every401LoginsAndRetries ==
    last.op \in ApiOps =>
        \A i \in 1..Len(last.tr) :
            IsRequest(last.tr[i]) /\ last.tr[i].st = "401" =>
                IF IsRetry(last.tr, i)
                THEN i = Len(last.tr) /\ Failed
                ELSE /\ i + 2 <= Len(last.tr)
                     /\ last.tr[i+1].e = "login"
                     /\ last.tr[i+2].e = last.tr[i].e

(* C1, amended: a profile GET that gets 401 is followed by exactly one     *)
(* login and, when that login returns, by exactly one retry of the GET;    *)
(* when the login raises, or the retry gets 401 too, nothing more is sent  *)
(* and the operation fails.  A POST (upload, resume update, headline) that *)
(* gets 401 is followed by no login and no retry: the operation fails.     *)
C1_ProfileGetRetriesOnce ==
    last.op \in ApiOps =>
        \A i \in 1..Len(last.tr) :
            IsRequest(last.tr[i]) /\ last.tr[i].st = "401" =>
                IF last.tr[i].e # "GET_profile" \/ IsRetry(last.tr, i)
                THEN i = Len(last.tr) /\ Failed
                ELSE /\ i + 1 <= Len(last.tr)
                     /\ last.tr[i+1].e = "login"
                     /\ IF last.tr[i+1].st = "ok"
                        THEN /\ i + 2 <= Len(last.tr)
                             /\ last.tr[i+2].e = "GET_profile"
                        ELSE i + 1 = Len(last.tr) /\ Failed

C1_TwoConsecutive401 ==
    /\ last.op = "get_profile"
    /\ Len(last.tr) = 4
    /\ last.tr[2].e = "GET_profile" /\ last.tr[2].st = "401"
    /\ last.tr[3].e = "login" /\ last.tr[3].st = "ok"
    /\ last.tr[4].e = "GET_profile" /\ last.tr[4].st = "401"
    /\ last.res = "None"

(* C2: no API operation ends with an exception that escapes it.            *)
C2_NoFaultEscapes == last.op \in ApiOps => last.res # "raised"

(* C3 as stated: every authenticated request, in a CLI run or in any       *)
(* sequence of public operations, follows a successful ensure-valid step   *)
(* and is sent while the cookie file is present and unexpired.             *)
C3_EveryRequestEnsured ==
    \A i \in 1..Len(last.tr) :
        IsRequest(last.tr[i]) => last.tr[i].ens /\ last.tr[i].sess

(* C3, amended: in a CLI run every authenticated request follows an        *)
(* ensure-valid step whose latest check found the cookie file unexpired or *)
(* whose login returned; so do, in any sequence of public operations, the  *)
(* profile GET, the headline POSTs and the resume-update POST that         *)
(* upload_resume sends.  The exceptions are the file-upload POST of a      *)
(* direct upload_resume and the POST of a direct update_resume.            *)
C3_CliRequestsEnsured ==
    \A i \in 1..Len(last.tr) :
        IsRequest(last.tr[i]) =>
            \/ last.tr[i].ens
            \/ last.op = "upload_resume" /\ last.tr[i].e = "POST_upload"
            \/ last.op = "update_resume"

C3_CliUploadAfterExpiry ==
    /\ last.op = "cli_upload"
    /\ \E i \in 1..Len(last.tr) :
          last.tr[i].e = "POST_upload" /\ last.tr[i].ens /\ ~last.tr[i].sess
    /\ \E i \in 1..Len(last.tr) : last.tr[i].e = "POST_update"

JarSetOf(j) == {j[i] : i \in 1..Len(j)}

Key(c) == <<c.domain, c.name>>

(* The cookies a login response carries: its elements with a name and a    *)
(* value, the domain defaulted.                                            *)
Carried(r) ==
    LET l == CookiesOf(r) IN
    {Cookie(l[i].name, l[i].value,
            IF l[i].hasDomain THEN l[i].domain ELSE DefaultDomain) :
        i \in {k \in 1..Len(l) :
                  l[k].kind = "obj" /\ l[k].hasName /\ l[k].hasValue}}

FileTriples(f) ==
    {Cookie(f.items[i].name, f.items[i].value, f.items[i].domain) :
        i \in 1..Len(f.items)}

(* The last operation was a login() that returned: a direct call, or the   *)
(* one of the CLI's ensure-valid step.                                     *)
LoginReturned ==
    /\ last.op \in {"login", "cli_ensure"}
    /\ last.res = "ok"
    /\ last.tr # <<>>
    /\ last.tr[Len(last.tr)].e = "login"

LoginResp == last.tr[Len(last.tr)].resp

(* C4 as stated: after a login that returned, the jar holds exactly the    *)
(* cookies of the login response, and so does the cookie file.             *)
C4_LoginReplacesCookies ==
    LoginReturned =>
        /\ JarSetOf(jar) = Carried(LoginResp)
        /\ file.kind = "array"
        /\ FileTriples(file) = Carried(LoginResp)

(* C4, amended: after a login that returned, the jar holds the cookies of  *)
(* the response plus every cookie it held before whose (domain, name) the  *)
(* response does not carry, and the cookie file has been overwritten with  *)
(* exactly the cookies of the jar.                                         *)
C4_LoginMergesCookies ==
    [][LoginReturned' =>
          /\ JarSetOf(jar') =
                 Carried(LoginResp') \cup
                 {c \in JarSetOf(jar) :
                     \A n \in Carried(LoginResp') : Key(n) # Key(c)}
          /\ file'.kind = "array"
          /\ Len(file'.items) = Len(jar')
          /\ FileTriples(file') = JarSetOf(jar')]_vars

C4_OldCookieSurvivesLogin ==
    /\ LoginReturned
    /\ \E c \in JarSetOf(jar) : c \notin Carried(LoginResp)
    /\ Carried(LoginResp) # {}

(* C5: a login() whose response has an error status or no "cookies" field  *)
(* raises, and leaves the cookie file and the jar as they were.            *)
C5_FailedLoginWritesNothing ==
    [][(last'.op = "login" /\ last'.tr[1].resp \in {"http_error", "no_cookies"}) =>
          /\ last'.res = "raised"
          /\ file' = file
          /\ jar' = jar]_vars

C5_LoginWithoutCookiesField ==
    /\ last.op = "login"
    /\ last.tr[1].resp = "no_cookies"
    /\ last.res = "raised"
    /\ file.kind = "array" /\ file.items # <<>>
    /\ jar # <<>>

(* The first expiry check of an operation reads the file the operation     *)
(* found: no login precedes it.                                            *)
FirstChecks(tr) ==
    {i \in 1..Len(tr) :
        tr[i].e = "check" /\ \A k \in 1..(i-1) : tr[k].e # "login"}

HasPastExpiry(f, t) ==
    /\ f.kind = "array"
    /\ \E i \in 1..Len(f.items) :
          f.items[i].kind = "obj" /\ f.items[i].hasExpiry /\ f.items[i].expiry < t

HasPastNonZeroExpiry(f, t) ==
    /\ f.kind = "array"
    /\ \E i \in 1..Len(f.items) :
          /\ f.items[i].kind = "obj" /\ f.items[i].hasExpiry
          /\ f.items[i].expiry # 0 /\ f.items[i].expiry < t

AllExpiriesFuture(f, t) ==
    /\ f.kind = "array"
    /\ \A i \in 1..Len(f.items) :
          f.items[i].kind = "obj" /\ f.items[i].hasExpiry /\ f.items[i].expiry > t

(* What the file and the clock alone say: the file is absent or cannot be  *)
(* read as an array of objects, or some recorded expiry has passed.        *)
ExpiredByContents(f, t) ==
    \/ f.kind \in {"absent", "garbage", "empty", "number"}
    \/ /\ f.kind = "array"
       /\ \E i \in 1..Len(f.items) :
             \/ f.items[i].kind # "obj"
             \/ /\ f.items[i].hasExpiry
                /\ f.items[i].expiry # 0 /\ f.items[i].expiry < t

(* C6 as stated: _is_cookie_expired() is true when the file is absent or   *)
(* holds a cookie whose recorded expiry is before now, and false when the  *)
(* file is an array whose cookies all expire in the future.                *)
C6_ExpiredIffPastExpiry ==
    [][\A i \in FirstChecks(last'.tr) :
          /\ (file.kind = "absent" \/ HasPastExpiry(file, now)) =>
                 last'.tr[i].st = "expired"
          /\ AllExpiriesFuture(file, now) => last'.tr[i].st # "expired"]_vars

(* C6, amended: the same with "recorded expiry" read as a recorded expiry  *)
(* other than 0 (an expiry of 0 counts as not set); and the result is the  *)
(* one the file's contents and the clock determine, whatever the jar.      *)
C6_ExpiredIffPastNonZeroExpiry ==
    [][\A i \in FirstChecks(last'.tr) :
          /\ (file.kind = "absent" \/ HasPastNonZeroExpiry(file, now)) =>
                 last'.tr[i].st = "expired"
          /\ AllExpiriesFuture(file, now) => last'.tr[i].st # "expired"
          /\ (last'.tr[i].st = "expired") = ExpiredByContents(file, now)]_vars

C6_SecondCookieExpired ==
    /\ last.op = "get_profile"
    /\ last.tr[1].e = "check" /\ last.tr[1].st = "expired"
    /\ last.res = "raised"
    /\ file.kind = "array" /\ Len(file.items) = 2
    /\ file.items[1].kind = "obj" /\ file.items[1].expiry >= now
    /\ file.items[2].kind = "obj" /\ file.items[2].expiry < now

(* C7: with a cookie file that holds an empty array, get_profile finds the *)
(* session expired and logs in before it sends its request.                *)
C7_EmptyFileIsExpired ==
    [][(file = Array(<<>>) /\ last'.op = "get_profile") =>
          /\ last'.tr[1].st = "expired"
          /\ Len(last'.tr) >= 2
          /\ last'.tr[2].e = "login"]_vars

(* C8: logout() leaves the jar empty and the cookie file absent, so that   *)
(* _is_cookie_expired() is true; it does not fail, also when called again; *)
(* and the next ensure-valid step (the CLI's, get_profile's) logs in       *)
(* before any request is sent.                                             *)
EnsuringOps == {"get_profile", "refresh_resume_headline", "cli_ensure", "cli_refresh"}

C8_LogoutResetsSession ==
    [][/\ last'.op = "logout" =>
             /\ jar' = <<>>
             /\ file' = Absent
             /\ IsCookieExpired(file', now')
             /\ last'.res = "ok"
       /\ (file = Absent /\ jar = <<>> /\ last'.op = "logout") =>
             file' = file /\ jar' = jar /\ last'.res = "ok"
       /\ (file = Absent /\ jar = <<>> /\ last'.op \in EnsuringOps) =>
             /\ Len(last'.tr) >= 2
             /\ last'.tr[1].e = "check" /\ last'.tr[1].st = "expired"
             /\ last'.tr[2].e = "login"
             /\ \A i \in 1..Len(last'.tr) :
                   IsRequest(last'.tr[i]) => i > 2 /\ last'.tr[2].st = "ok"]_vars

C8_LoggedOut ==
    /\ last.op = "logout"
    /\ ops >= 3
    /\ file = Absent /\ jar = <<>>

(* C9: a cookie file that is loaded and then saved keeps, for every        *)
(* cookie, its name, value, domain and expiry.                             *)
WellFormed(f) ==
    /\ f.kind = "array"
    /\ \A i \in 1..Len(f.items) :
          /\ f.items[i].kind = "obj"
          /\ f.items[i].hasName /\ f.items[i].hasValue
          /\ f.items[i].hasDomain /\ f.items[i].hasExpiry
          /\ f.items[i].expiry > 0

C9_LoadSaveRoundTrip ==
    /\ LoginReturned => JarSetOf(LoadCookies(file, <<>>)) = FileTriples(file)
    /\ (last.op = "construct" /\ last.res = "ok" /\ WellFormed(file)) =>
          SaveCookies(jar, now) = file

(* C10 as stated: the first headline update carries the current headline   *)
(* followed by one period, a text other than the headline; the second      *)
(* carries the headline.                                                   *)
HeadlinePosts == SelectSeq(last.tr, LAMBDA ev : ev.e = "POST_headline")

RefreshOps == {"refresh_resume_headline", "cli_refresh"}

C11_RevertOnlyAfterAddSucceeded ==
    last.op \in RefreshOps =>
        /\ Len(HeadlinePosts) <= 2
        /\ Len(HeadlinePosts) = 2 => HeadlinePosts[1].st = "200"
        /\ (HeadlinePosts # <<>> /\ HeadlinePosts[1].st # "200") =>
               (Len(HeadlinePosts) = 1 /\ last.res = "False")
        /\ last.res = "True" <=>
               (/\ Len(HeadlinePosts) = 2
                /\ HeadlinePosts[1].st = "200"
                /\ HeadlinePosts[2].st = "200")
        /\ HeadlinePosts # <<>> => last.res \in {"True", "False"}

C11_FirstUpdateFailed ==
    /\ last.op \in RefreshOps
    /\ Len(HeadlinePosts) = 1
    /\ HeadlinePosts[1].st = "204"
    /\ last.res = "False"

(* C12: when the upload endpoint answers with a non-empty mapping and the  *)
(* profile fetch returns a profile id p, upload_resume calls update_resume *)
(* exactly once, with the mapping's (first) key as file_key and p as       *)
(* profile_id, and returns what that call returns; when the upload answer  *)
(* is empty or no mapping, or the local file does not exist, update_resume *)
(* is not called and the operation reports failure (None).                 *)
UploadOps == {"upload_resume", "cli_upload"}

UploadPosts == SelectSeq(last.tr, LAMBDA ev : ev.e = "POST_upload")

UpdatePosts == SelectSeq(last.tr, LAMBDA ev : ev.e = "POST_update")

C13_CredentialsResolvedBeforeAnythingElse ==
    last.op = "construct" =>
        LET eu == last.in[1]
            ep == last.in[2]
            vu == last.in[3]
            vp == last.in[4]
            user == last.in[5]
            pass == last.in[6]
        IN /\ eu # "" => user = eu
           /\ eu = "" => user = vu
           /\ ep # "" => pass = ep
           /\ ep = "" => pass = vp
           /\ (user = "" \/ pass = "") <=> last.res = "raised"
           /\ last.res = "raised" =>
                 /\ last.exc = "ValueError"
                 /\ last.tr = <<>>
                 /\ jar = <<>> /\ phase = "none"
           /\ last.res # "raised" =>
                 /\ last.res = "ok"
                 /\ Len(last.tr) = 1 /\ last.tr[1].e = "load"

C13_PasswordMissingWithCookieFilePresent ==
    /\ last.op = "construct"
    /\ last.in[1] = "u" /\ last.in[3] = "e"
    /\ last.in[2] = "" /\ last.in[4] = ""
    /\ last.in[5] = "u"
    /\ last.res = "raised"
    /\ file.kind = "array" /\ file.items # <<>>

(* The cookie file is absent, or a JSON array whose elements are objects   *)
(* with name, value, domain and expiry.                                    *)
AbsentOrCookieArray(f) ==
    \/ f.kind = "absent"
    \/ /\ f.kind = "array"
       /\ \A i \in 1..Len(f.items) :
             /\ f.items[i].kind = "obj"
             /\ f.items[i].hasName /\ f.items[i].hasValue
             /\ f.items[i].hasDomain /\ f.items[i].hasExpiry

(* C14 as stated: after any operation of the process the cookie file is    *)
(* absent or a valid array of cookie objects.                              *)
C14_FileAlwaysAbsentOrCookieArray == last.op # "idle" => AbsentOrCookieArray(file)

(* C14, amended: whatever the process writes is such a file (every step    *)
(* that changes the file leaves it absent or a valid array of cookie       *)
(* objects, a login that returned leaves a valid array, a logout leaves it *)
(* absent), and a file that was absent or valid stays so; a corrupt file   *)
(* found at start stays as it is until a login returns or logout is called.*)
C14_ProgramWritesOnlyCookieArrays ==
    [][/\ file' # file => AbsentOrCookieArray(file')
       /\ AbsentOrCookieArray(file) => AbsentOrCookieArray(file')
       /\ (last'.op \in {"login", "cli_ensure"} /\ last'.res = "ok"
           /\ last'.tr[Len(last'.tr)].e = "login") =>
              (file'.kind = "array" /\ AbsentOrCookieArray(file'))
       /\ last'.op = "logout" => file'.kind = "absent"
       /\ (last'.op \notin {"idle", "login", "logout"}
           /\ \A i \in 1..Len(last'.tr) :
                  ~(last'.tr[i].e = "login" /\ last'.tr[i].st = "ok")) =>
              file' = file]_vars

C14_UnusableFileReplacedByLogin ==
    /\ LoginReturned
    /\ last.tr[1].e = "check" /\ last.tr[1].st = "expired"
    /\ ~last.tr[1].sess
    /\ file.kind = "array" /\ Len(file.items) = 2
    /\ AbsentOrCookieArray(file)

(* The cookie file holds text that is no JSON, a JSON value that is no     *)
(* array, or an array with an element that is no object after valid ones.  *)
CorruptFile(f) ==
    \/ f.kind \in {"garbage", "empty", "number", "emptyobj"}
    \/ /\ f.kind = "array"
       /\ \E i \in 2..Len(f.items) :
             /\ f.items[i].kind # "obj"
             /\ AbsentOrCookieArray(Array(SubSeq(f.items, 1, i - 1)))

(* C15: when the cookie file is corrupt at startup, construction (with     *)
(* credentials) does not fail, no cookie of the file is installed in the   *)
(* jar, and _is_cookie_expired() returns true.                             *)
C15_CorruptFileLoadsNothingAndIsExpired ==
    (last.op = "construct" /\ last.in[5] # "" /\ last.in[6] # ""
     /\ CorruptFile(file)) =>
        /\ last.res = "ok"
        /\ jar = <<>>
        /\ IsCookieExpired(file, now)

(* The elements of a login response that set the cookie it (the same name, *)
(* value and domain) and carry an expiry of the server.                    *)
ServerExpiries(r, it) ==
    LET l == CookiesOf(r) IN
    {l[k].expiry : k \in {n \in 1..Len(l) :
        /\ l[n].kind = "obj" /\ l[n].hasName /\ l[n].hasValue /\ l[n].hasExpiry
        /\ l[n].name = it.name /\ l[n].value = it.value
        /\ it.domain = (IF l[n].hasDomain THEN l[n].domain ELSE DefaultDomain)}}

(* C16: at a save at time T (the save of a login that returned), a cookie  *)
(* for which the server provided an expiry is persisted with that expiry,  *)
(* and every other cookie is persisted with expiry T + 3600.               *)
C16_ServerExpiryPersisted ==
    LoginReturned =>
        /\ file.kind = "array"
        /\ \A i \in 1..Len(file.items) :
              LET srv == ServerExpiries(LoginResp, file.items[i]) IN
              IF srv # {} THEN file.items[i].expiry \in srv
              ELSE file.items[i].expiry = now + FallbackTTL

(* The condition of the CLI's ensure-valid step, read off the file, the    *)
(* clock and the jar.                                                      *)
MustLogin(f, t, j) == ExpiredByContents(f, t) \/ j = <<>>

Logins(tr) == SelectSeq(tr, LAMBDA ev : ev.e = "login")

CliActions == {"cli_upload", "cli_refresh", "cli_none"}

(* C17 as stated: immediately after a login() that returned, the cookies   *)
(* are not expired and the jar is not empty.                               *)
C17_LoginMakesConditionFalse == LoginReturned => ~MustLogin(file, now, jar)

(* C17, amended: the CLI's ensure-valid step logs in (once) exactly when   *)
(* the cookie file is absent or expired or the jar is empty; after a       *)
(* login() that returned and left a cookie in the jar that condition is    *)
(* false, and the ensure-valid step of the dispatched action finds the     *)
(* cookies valid and does not log in while they have not expired; after a  *)
(* login that left the jar empty the file is an empty array and the        *)
(* condition is still true; when the login raises, the exception ends the  *)
(* process and no action is dispatched: an action runs only after the      *)
(* ensure-valid step returned.                                             *)
C17_EnsureValidLogsInOnceWhenNeeded ==
    [][/\ last'.op = "cli_ensure" =>
             /\ phase = "cli_new"
             /\ Len(Logins(last'.tr)) <= 1
             /\ Logins(last'.tr) # <<>> <=> MustLogin(file, now, jar)
             /\ last'.res = "ok" <=> phase' = "cli_ready"
             /\ last'.res # "ok" =>
                   /\ last'.res = "raised" /\ last'.exc # ""
                   /\ Logins(last'.tr)[1].st = "raised"
                   /\ phase' = "none"
       /\ (/\ last'.op \in {"login", "cli_ensure"} /\ last'.res = "ok"
           /\ Logins(last'.tr) # <<>>) =>
             IF jar' # <<>> THEN ~MustLogin(file', now', jar')
             ELSE file' = Array(<<>>) /\ MustLogin(file', now', jar')
       /\ last'.op \in CliActions => (phase = "cli_ready" /\ phase' = "none")
       /\ (last'.op \in CliActions /\ ~ExpiredByContents(file, now)) =>
             \A i \in FirstChecks(last'.tr) :
                /\ last'.tr[i].st = "valid"
                /\ i < Len(last'.tr) => last'.tr[i + 1].e # "login"]_vars

C17_ActionAtEndOfCookieLifetime ==
    /\ last.op = "cli_refresh"
    /\ Logins(last.tr) = <<>>
    /\ last.tr[1].e = "check" /\ last.tr[1].st = "valid"
    /\ file.kind = "array" /\ file.items # <<>>
    /\ file.items[1].expiry = now
    /\ now = Now0 + FallbackTTL

ProfileGets(tr) == SelectSeq(tr, LAMBDA ev : ev.e = "GET_profile")

(* The position of the first profile GET in a trace that has one.          *)
FirstGet(tr) == CHOOSE i \in 1..Len(tr) :
                   tr[i].e = "GET_profile" /\ \A k \in 1..(i-1) : tr[k].e # "GET_profile"

(* At most two profile GETs and at most two logins in one operation: at    *)
(* most one login before the first GET, only after a check that found the  *)
(* cookies expired, and at most one after it, only when it got 401.        *)
BoundedProfileWork(tr) ==
    /\ Len(ProfileGets(tr)) <= 2
    /\ Len(Logins(tr)) <= 2
    /\ Len(ProfileGets(tr)) = 2 => ProfileGets(tr)[1].st = "401"
    /\ \A i \in 1..Len(tr) : tr[i].e = "login" =>
          /\ i > 1
          /\ \/ tr[i-1].e = "check" /\ tr[i-1].st = "expired"
             \/ tr[i-1].e = "GET_profile" /\ tr[i-1].st = "401"
                /\ i - 1 = FirstGet(tr)

(* C18 as stated: get_profile sends at most two GETs and performs at most  *)
(* two logins, and returns the body exactly when its last GET got 200.     *)
C18_BodyIffLastGet200 ==
    last.op = "get_profile" =>
        /\ BoundedProfileWork(last.tr)
        /\ last.res = "body" <=>
              (/\ ProfileGets(last.tr) # <<>>
               /\ ProfileGets(last.tr)[Len(ProfileGets(last.tr))].st = "200")

(* C18, amended: get_profile sends at most two GETs and performs at most   *)
(* two logins (one for expired cookies, one for a 401 of the first GET);   *)
(* it returns the body exactly when its last GET got 200 with a body that  *)
(* parses as JSON, and None for a 200 with another body, any other final   *)
(* status, a transport error or a failed forced login; it sends no GET     *)
(* when the login for expired cookies raises.                              *)
C18_BodyIffLastGet200WithJson ==
    /\ last.op \in ApiOps \ {"update_resume"} => BoundedProfileWork(last.tr)
    /\ last.op = "get_profile" =>
          LET g == ProfileGets(last.tr) IN
          /\ last.res \in {"body", "None", "raised"}
          /\ last.res = "body" <=>
                (/\ g # <<>> /\ g[Len(g)].st = "200"
                 /\ last.body.shape # "bad_json")
          /\ last.res = "body" => last.body \in Bodies
          /\ (g # <<>> /\ last.res # "body") => last.res = "None"
          /\ g = <<>> =>
                (/\ last.res = "raised"
                 /\ Len(Logins(last.tr)) = 1 /\ Logins(last.tr)[1].st = "raised")

C18_TwoLoginsTwoGets ==
    /\ last.op = "get_profile"
    /\ Len(ProfileGets(last.tr)) = 2 /\ Len(Logins(last.tr)) = 2
    /\ ProfileGets(last.tr)[2].st = "200"
    /\ last.res = "body"

(* C19: with two processes on one cookie file, under every interleaving of *)
(* their file steps no process is left by an unhandled exception caused by *)
(* the file, and a reader that saw the file absent, empty or partly        *)
(* written has no cookies (after _load_cookies) or answers expired (after  *)
(* _is_cookie_expired) and goes on.                                        *)
C19_NoFaultFromSharedFile ==
    \A p \in Procs :
        /\ procs[p].fault = ""
        /\ procs[p].pc # "crashed"
        /\ procs[p].saw \in {"absent", "empty", "garbage"} =>
              /\ procs[p].exp \in {"", "yes"}
              /\ procs[p].exp = "" => procs[p].jar = <<>>

====
